---- MODULE Spec2Model ----
(***************************************************************************)
(* Model of src-tauri/src/lib.rs of filegraph-desktop:                     *)
(*   - the filesystem watch manager: WatcherState, start_watch, stop_watch *)
(*     and the debouncer callback that start_watch installs;               *)
(*   - read_text_file (byte-capped read followed by UTF-8 decoding).       *)
(* Three specifications share the module: Spec (the watch manager, with    *)
(* concurrent callers and the debouncer threads), FairSpec (Spec plus the  *)
(* scheduler's fairness) and ReadSpec (read_text_file over bounded files). *)
(***************************************************************************)
EXTENDS Integers, Sequences, FiniteSets, TLC

VARIABLES
    watcher_lock,  \* the Option<DebouncerType> inside WatcherState's Mutex
    holder,        \* the thread that holds the MutexGuard, or None
    poisoned,      \* the Mutex's poison flag
    pc,            \* pc[t]: the line of start_watch/stop_watch thread t is at
    path,          \* path[t]: start_watch's `path` argument
    debouncer,     \* debouncer[t]: start_watch's local `debouncer`
    returned,      \* history: the commands that have returned, oldest first
    debs,          \* every Debouncer constructed so far, by id
    rd             \* read_text_file: its inputs, then its result

vars == <<watcher_lock, holder, poisoned, pc, path, debouncer, returned, debs, rd>>

watchVars == <<watcher_lock, holder, poisoned, pc, path, debouncer, returned, debs>>

\* an absent string, or no thread
None == "None"

\* Option<DebouncerType>, holding the id of the Debouncer
NoDebouncer == <<>>
Some(id) == <<id>>

----------------------------------------------------------------------------
(* Bounds of the model *)

\* debounced events one debounce window can hold
MaxBatch == 2

\* errors the OS watcher can report in one debounce window
MaxErrors == 2

\* the command invocations of one behaviour, each on its own thread of tauri's
\* async runtime: they run one after the other or concurrently
Threads == {"t1", "t2"}

\* bytes of the longest file read_text_file is given
MaxFileLen == 4

\* largest byte cap a caller passes to read_text_file
MaxCap == 4

\* directories start_watch is asked to watch
Dirs == {"/p1", "/p2"}

\* file names the OS reports events for; the second is not valid UTF-8
\* (a raw 0xFF byte, written <FF>)
Names == {"a.txt", "b<FF>"}

\* errors the OS watcher reports (notify::ErrorKind)
WatchErrors == {"Io", "MaxFilesWatch"}

----------------------------------------------------------------------------
(* Data *)

\* notify::EventKind values, as the nesting of their enum constructors
CreateFile == <<"Create", "File">>
RenameBoth == <<"Modify", "Name", "Both">>

\* a PathBuf: the watched directory joined with an OS file name
PathBuf(dir, name) == [dir |-> dir, name |-> name]

\* the debounced events the OS can report for a watched directory
RawEvents(dir) ==
    {[kind |-> CreateFile, paths |-> <<PathBuf(dir, n)>>] : n \in Names}
    \cup {[kind |-> RenameBoth, paths |-> <<PathBuf(dir, "a.txt"), PathBuf(dir, "b<FF>")>>]}

\* format!("{:?}", event.event.kind): the derived Debug of nested tuple variants
RECURSIVE KindDebug(_)
KindDebug(k) ==
    IF Len(k) = 1 THEN k[1] ELSE k[1] \o "(" \o KindDebug(Tail(k)) \o ")"

\* Path::display(): bytes that are not UTF-8 become U+FFFD
Lossy(name) == IF name = "b<FF>" THEN "b<U+FFFD>" ELSE name

PathDisplay(p) == p.dir \o "/" \o Lossy(p.name)

\* a FilesystemChange that keeps only the first path of the event
ToFsChange_FirstPath(event) ==
    [kind |-> KindDebug(event.kind),
     paths |-> <<PathDisplay(event.paths[1])>>]

\* the FilesystemChange built from one DebouncedEvent
ToFsChange(event) ==
    [kind |-> KindDebug(event.kind),
     paths |-> [i \in 1..Len(event.paths) |-> PathDisplay(event.paths[i])]]

Range(s) == {s[i] : i \in 1..Len(s)}

\* a Debouncer just built by new_debouncer: its OS handle exists, no path is
\* watched yet, and its thread is at the top of its loop
NewDebouncer ==
    [dir |-> None, state |-> "new", tpc |-> "loop",
     events |-> <<>>, out |-> <<>>,          \* the callback's Ok(events) and what it emitted
     errs |-> <<>>, reported |-> <<>>,       \* the callback's Err(errors) and what it printed
     late |-> 0]                             \* history: records emitted after the stop_watch
                                             \* that dropped it had returned

\* what is left of a dropped Debouncer once its thread has ended
Ended(d) ==
    [NewDebouncer EXCEPT !.dir = d.dir, !.state = d.state, !.tpc = "exit"]

\* the ids Debouncers can have: each start_watch builds at most one
DebIds == 1..Cardinality(Threads)

Live(d) == d.state \in {"new", "watching"}

\* the ids of the debouncers whose OS watch handle is live
LiveHandles == {i \in 1..Len(debs) : Live(debs[i])}

\* Drop of a Debouncer: the OS handle is released and its thread told to stop.
\* A thread at the top of its loop sees the stop flag and ends without another
\* callback; one that sleeps or runs the callback goes on until it is back there.
DropDebouncer(ds, opt, why) ==
    IF opt = NoDebouncer THEN ds
    ELSE LET d == [ds[opt[1]] EXCEPT !.state = why]
         IN [ds EXCEPT ![opt[1]] = IF d.tpc = "loop" THEN Ended(d) ELSE d]

----------------------------------------------------------------------------
(* The watch manager: WatcherState, start_watch, stop_watch *)

\* .manage(WatcherState(Mutex::new(None))): no session, nobody in a command
WatchInit ==
    /\ watcher_lock = NoDebouncer
    /\ holder = None
    /\ poisoned = FALSE
    /\ pc = [t \in Threads |-> "idle"]
    /\ path = [t \in Threads |-> None]
    /\ debouncer = [t \in Threads |-> NoDebouncer]
    /\ returned = <<>>
    /\ debs = <<>>

\* a command returns `res` to its caller; its locals are gone
Return(t, cmd, res) ==
    /\ pc' = [pc EXCEPT ![t] = "done"]
    /\ returned' = Append(returned, [cmd |-> cmd, path |-> path[t], res |-> res])
    /\ path' = [path EXCEPT ![t] = None]
    /\ debouncer' = [debouncer EXCEPT ![t] = NoDebouncer]

\* the UI layer invokes start_watch(p)
InvokeStart(t, p) ==
    /\ pc[t] = "idle"
    /\ pc' = [pc EXCEPT ![t] = "start48"]
    /\ path' = [path EXCEPT ![t] = p]
    /\ UNCHANGED <<watcher_lock, holder, poisoned, debouncer, returned, debs, rd>>

\* the UI layer invokes stop_watch()
InvokeStop(t) ==
    /\ pc[t] = "idle"
    /\ pc' = [pc EXCEPT ![t] = "stop91"]
    /\ UNCHANGED <<watcher_lock, holder, poisoned, path, debouncer, returned, debs, rd>>

\* a lock() that does not wait for the guard to be dropped
MutexLock_NoWait(t, cmd, next) ==
    /\ \/ /\ ~poisoned
          /\ holder' = t
          /\ pc' = [pc EXCEPT ![t] = next]
          /\ UNCHANGED <<path, debouncer, returned>>
       \/ /\ poisoned
          /\ Return(t, cmd, "ErrLock")
          /\ UNCHANGED holder
    /\ UNCHANGED <<watcher_lock, poisoned, debs, rd>>

\* state.0.lock(): blocks while another thread holds the guard; a poisoned
\* mutex yields Err, which map_err(..)? returns (dropping the guard at once)
MutexLock(t, cmd, next) ==
    /\ holder = None
    /\ \/ /\ ~poisoned
          /\ holder' = t
          /\ pc' = [pc EXCEPT ![t] = next]
          /\ UNCHANGED <<path, debouncer, returned>>
       \/ /\ poisoned
          /\ Return(t, cmd, "ErrLock")
          /\ UNCHANGED holder
    /\ UNCHANGED <<watcher_lock, poisoned, debs, rd>>

\* line 48
StartWatchLock(t) ==
    /\ pc[t] = "start48"
    /\ MutexLock(t, "start_watch", "start51")

\* start_watch without line 51: the previous Debouncer stays in the state
\* until line 84 replaces it
StartWatchStop_KeepsOld(t) ==
    /\ pc[t] = "start51"
    /\ pc' = [pc EXCEPT ![t] = "start55"]
    /\ UNCHANGED <<watcher_lock, holder, poisoned, path, debouncer, returned, debs, rd>>

\* line 51: *watcher_lock = None drops the previous Debouncer, if any
StartWatchStop(t) ==
    /\ pc[t] = "start51"
    /\ watcher_lock' = NoDebouncer
    /\ debs' = DropDebouncer(debs, watcher_lock, "replaced")
    /\ pc' = [pc EXCEPT ![t] = "start55"]
    /\ UNCHANGED <<holder, poisoned, path, debouncer, returned, rd>>

\* lines 55-77: new_debouncer(500 ms, None, callback), then `?`
StartWatchNew(t) ==
    /\ pc[t] = "start55"
    /\ \/ /\ debs' = Append(debs, NewDebouncer)
          /\ debouncer' = [debouncer EXCEPT ![t] = Some(Len(debs) + 1)]
          /\ pc' = [pc EXCEPT ![t] = "start81"]
          /\ UNCHANGED <<holder, path, returned>>
       \/ /\ Return(t, "start_watch", "ErrCreate")
          /\ holder' = None
          /\ UNCHANGED debs
    /\ UNCHANGED <<watcher_lock, poisoned, rd>>

\* lines 80-84 with the store moved before the watch: a Debouncer whose watch
\* failed is left in the state
StartWatchWatch_StoresFirst(t) ==
    /\ pc[t] = "start81"
    /\ \/ /\ debs' = [debs EXCEPT ![debouncer[t][1]].dir = path[t],
                                  ![debouncer[t][1]].state = "watching"]
          /\ pc' = [pc EXCEPT ![t] = "start84"]
          /\ UNCHANGED <<watcher_lock, holder, path, debouncer, returned>>
       \/ /\ watcher_lock' = debouncer[t]
          /\ Return(t, "start_watch", "ErrWatch")
          /\ holder' = None
          /\ UNCHANGED debs
    /\ UNCHANGED <<poisoned, rd>>

\* lines 80-82: debouncer.watcher().watch(path, NonRecursive), then `?`;
\* on Err the local debouncer is dropped before the guard
StartWatchWatch(t) ==
    /\ pc[t] = "start81"
    /\ \/ /\ debs' = [debs EXCEPT ![debouncer[t][1]].dir = path[t],
                                  ![debouncer[t][1]].state = "watching"]
          /\ pc' = [pc EXCEPT ![t] = "start84"]
          /\ UNCHANGED <<holder, path, debouncer, returned>>
       \/ /\ debs' = DropDebouncer(debs, debouncer[t], "failed")
          /\ Return(t, "start_watch", "ErrWatch")
          /\ holder' = None
    /\ UNCHANGED <<watcher_lock, poisoned, rd>>

\* start_watch without line 84: the local Debouncer is dropped on return
StartWatchStore_Forgets(t) ==
    /\ pc[t] = "start84"
    /\ debs' = DropDebouncer(debs, debouncer[t], "failed")
    /\ debouncer' = [debouncer EXCEPT ![t] = NoDebouncer]
    /\ pc' = [pc EXCEPT ![t] = "start86"]
    /\ UNCHANGED <<watcher_lock, holder, poisoned, path, returned, rd>>

\* line 84: *watcher_lock = Some(debouncer) moves the local into the state
\* (and drops what the state held)
StartWatchStore(t) ==
    /\ pc[t] = "start84"
    /\ watcher_lock' = debouncer[t]
    /\ debs' = DropDebouncer(debs, watcher_lock, "replaced")
    /\ debouncer' = [debouncer EXCEPT ![t] = NoDebouncer]
    /\ pc' = [pc EXCEPT ![t] = "start86"]
    /\ UNCHANGED <<holder, poisoned, path, returned, rd>>

\* a start_watch whose guard outlives the call
StartWatchReturn_KeepsGuard(t) ==
    /\ pc[t] = "start86"
    /\ Return(t, "start_watch", "Ok")
    /\ UNCHANGED <<watcher_lock, holder, poisoned, debs, rd>>

\* line 86: Ok(()); the guard is dropped
StartWatchReturn(t) ==
    /\ pc[t] = "start86"
    /\ holder' = None
    /\ Return(t, "start_watch", "Ok")
    /\ UNCHANGED <<watcher_lock, poisoned, debs, rd>>

\* a library call made under the guard (new_debouncer, watch) panics: the
\* unwinding drops the local debouncer, then the guard, which poisons the Mutex
HolderPanics(t) ==
    /\ pc[t] \in {"start55", "start81"}
    /\ debs' = DropDebouncer(debs, debouncer[t], "failed")
    /\ poisoned' = TRUE
    /\ holder' = None
    /\ Return(t, "start_watch", "Panic")
    /\ UNCHANGED <<watcher_lock, rd>>

\* line 91
StopWatchLock(t) ==
    /\ pc[t] = "stop91"
    /\ MutexLock(t, "stop_watch", "stop92")

\* a stop_watch that refuses to stop when nothing is watched
StopWatchStore_ErrWhenIdle(t) ==
    /\ pc[t] = "stop92"
    /\ \/ /\ watcher_lock # NoDebouncer
          /\ watcher_lock' = NoDebouncer
          /\ debs' = DropDebouncer(debs, watcher_lock, "stopping")
          /\ pc' = [pc EXCEPT ![t] = "stop93"]
          /\ UNCHANGED <<holder, path, debouncer, returned>>
       \/ /\ watcher_lock = NoDebouncer
          /\ Return(t, "stop_watch", "ErrNotWatching")
          /\ holder' = None
          /\ UNCHANGED <<watcher_lock, debs>>
    /\ UNCHANGED <<poisoned, rd>>

\* line 92: *watcher_lock = None drops the active Debouncer, if any
StopWatchStore(t) ==
    /\ pc[t] = "stop92"
    /\ watcher_lock' = NoDebouncer
    /\ debs' = DropDebouncer(debs, watcher_lock, "stopping")
    /\ pc' = [pc EXCEPT ![t] = "stop93"]
    /\ UNCHANGED <<holder, poisoned, path, debouncer, returned, rd>>

\* line 93: Ok(()); the guard is dropped. From here on the session that this
\* stop_watch dropped is one "stopped" by a completed call.
StopWatchReturn(t) ==
    /\ pc[t] = "stop93"
    /\ holder' = None
    /\ Return(t, "stop_watch", "Ok")
    /\ debs' = [d \in DOMAIN debs |->
                   IF debs[d].state = "stopping" THEN [debs[d] EXCEPT !.state = "stopped"]
                   ELSE debs[d]]
    /\ UNCHANGED <<watcher_lock, poisoned, rd>>

----------------------------------------------------------------------------
(* The debouncer that start_watch builds, and the callback it is given *)

\* sequences of at most n distinct elements of S, in any order
RECURSIVE Arrangements(_, _)
Arrangements(S, n) ==
    IF n = 0 THEN {<<>>}
    ELSE LET shorter == Arrangements(S, n - 1)
         IN shorter \cup {Append(q, x) : q \in shorter, x \in S}

NoRepeat(q) == Cardinality(Range(q)) = Len(q)

\* what one debounce window can hold for a watched directory: the debouncer
\* keeps at most one event per kind and path
EventWindows(dir) == {q \in Arrangements(RawEvents(dir), MaxBatch) : q # <<>> /\ NoRepeat(q)}

ErrorWindows == {q \in Arrangements(WatchErrors, MaxErrors) : q # <<>>}

\* top of the debouncer thread's loop: it ends once the Debouncer was dropped
DebouncerLoop(d) ==
    /\ d \in DOMAIN debs
    /\ debs[d].tpc = "loop"
    /\ \/ /\ Live(debs[d])
          /\ debs' = [debs EXCEPT ![d].tpc = "tick", ![d].events = <<>>, ![d].out = <<>>,
                                  ![d].errs = <<>>, ![d].reported = <<>>]
       \/ /\ ~Live(debs[d])
          /\ debs' = [debs EXCEPT ![d] = Ended(debs[d])]
    /\ UNCHANGED <<watcher_lock, holder, poisoned, pc, path, debouncer, returned, rd>>

\* the 500 ms window elapses with events collected from the watched directory:
\* the thread invokes the callback with Ok(events)
DeliverEvents(d) ==
    /\ d \in DOMAIN debs
    /\ debs[d].tpc = "tick"
    /\ debs[d].dir # None
    /\ \E events \in EventWindows(debs[d].dir) :
           debs' = [debs EXCEPT ![d].events = events, ![d].tpc = "ok"]
    /\ UNCHANGED <<watcher_lock, holder, poisoned, pc, path, debouncer, returned, rd>>

\* the window elapses with errors reported by the OS watcher: the thread
\* invokes the callback with Err(errors)
DeliverErrors(d) ==
    /\ d \in DOMAIN debs
    /\ debs[d].tpc = "tick"
    /\ debs[d].dir # None
    /\ \E errors \in ErrorWindows :
           debs' = [debs EXCEPT ![d].errs = errors, ![d].tpc = "err"]
    /\ UNCHANGED <<watcher_lock, holder, poisoned, pc, path, debouncer, returned, rd>>

\* the window elapses with nothing collected: no callback
DebouncerIdle(d) ==
    /\ d \in DOMAIN debs
    /\ debs[d].tpc = "tick"
    /\ debs' = [debs EXCEPT ![d].tpc = "loop"]
    /\ UNCHANGED <<watcher_lock, holder, poisoned, pc, path, debouncer, returned, rd>>

\* lines 60-69, one iteration of `for event in events`: build the
\* FilesystemChange of the event and emit it on "fs-change"
CallbackOk(d) ==
    /\ d \in DOMAIN debs
    /\ debs[d].tpc = "ok"
    /\ LET n == Len(debs[d].out) + 1
       IN debs' = [debs EXCEPT
              ![d].out = Append(@, ToFsChange(debs[d].events[n])),
              ![d].late = IF debs[d].state = "stopped" THEN @ + 1 ELSE @,
              ![d].tpc = IF n = Len(debs[d].events) THEN "loop" ELSE "ok"]
    /\ UNCHANGED <<watcher_lock, holder, poisoned, pc, path, debouncer, returned, rd>>

\* a callback that, on an error, takes the state lock and ends the session
CallbackErr_StopsWatch(d) ==
    /\ d \in DOMAIN debs
    /\ debs[d].tpc = "err"
    /\ holder = None
    /\ holder' = "callback"
    /\ watcher_lock' = NoDebouncer
    /\ LET n == Len(debs[d].reported) + 1
       IN debs' = [DropDebouncer(debs, watcher_lock, "failed") EXCEPT
              ![d].reported = Append(@, debs[d].errs[n]),
              ![d].tpc = IF n = Len(debs[d].errs) THEN "loop" ELSE "err"]
    /\ UNCHANGED <<poisoned, pc, path, debouncer, returned, rd>>

\* lines 70-74, one iteration of `for error in errors`: eprintln! the error
CallbackErr(d) ==
    /\ d \in DOMAIN debs
    /\ debs[d].tpc = "err"
    /\ LET n == Len(debs[d].reported) + 1
       IN debs' = [debs EXCEPT
              ![d].reported = Append(@, debs[d].errs[n]),
              ![d].tpc = IF n = Len(debs[d].errs) THEN "loop" ELSE "err"]
    /\ UNCHANGED <<watcher_lock, holder, poisoned, pc, path, debouncer, returned, rd>>

----------------------------------------------------------------------------
(* read_text_file *)

\* max_bytes.unwrap_or(4 * 1024 * 1024)
DefaultMaxBytes == 4194304

\* the bytes files are made of: 'a', and the bytes EF BB BF, which are the
\* UTF-8 byte order mark at the start of a file and U+FEFF anywhere else
FileBytes == {97, 239, 187, 191}

Utf8Bom == <<239, 187, 191>>

\* U+FFFD, which the decoder emits for a malformed sequence
Replacement == 65533

Min(a, b) == IF a < b THEN a ELSE b

RECURSIVE ByteStrings(_)
ByteStrings(n) ==
    IF n = 0 THEN {<<>>}
    ELSE LET shorter == ByteStrings(n - 1)
         IN shorter \cup {Append(q, x) : q \in {r \in shorter : Len(r) = n - 1}, x \in FileBytes}

IsAscii(x) == x < 128
IsLead3(x) == x >= 224 /\ x <= 239
IsCont(x) == x >= 128 /\ x <= 191

\* the code point of a three-byte sequence
CodePoint3(x, y, z) == (x % 16) * 4096 + (y % 64) * 64 + (z % 64)

\* the UTF-8 decoder of encoding_rs (the WHATWG decoder): a malformed or cut
\* sequence becomes one U+FFFD and decoding resumes at the byte that broke it
RECURSIVE Utf8Decode(_)
Utf8Decode(b) ==
    IF b = <<>> THEN <<>>
    ELSE IF IsAscii(b[1]) THEN <<b[1]>> \o Utf8Decode(Tail(b))
    ELSE IF IsLead3(b[1]) /\ Len(b) >= 2 /\ IsCont(b[2])
         THEN IF Len(b) >= 3 /\ IsCont(b[3])
              THEN <<CodePoint3(b[1], b[2], b[3])>> \o Utf8Decode(SubSeq(b, 4, Len(b)))
              ELSE <<Replacement>> \o Utf8Decode(SubSeq(b, 3, Len(b)))
    ELSE <<Replacement>> \o Utf8Decode(Tail(b))

\* UTF_8.decode(&buffer): BOM sniffing removes a leading byte order mark
Decode(buffer) ==
    IF Len(buffer) >= 3 /\ SubSeq(buffer, 1, 3) = Utf8Bom
    THEN Utf8Decode(SubSeq(buffer, 4, Len(buffer)))
    ELSE Utf8Decode(buffer)

\* bytes one char takes in a Rust String
CharLen(c) == IF c < 128 THEN 1 ELSE IF c < 2048 THEN 2 ELSE 3

\* String::len() of the decoded content
RECURSIVE StrLen(_)
StrLen(content) ==
    IF content = <<>> THEN 0 ELSE CharLen(content[1]) + StrLen(Tail(content))

\* what read_text_file can be called on: a path that does not exist, a
\* directory, a file that cannot be opened, or a file with its bytes; `readable`
\* is how many of them are still there when the read happens (another process
\* can truncate the file after its metadata was read); max_bytes is Some or None
ReadInputs ==
    {[pc |-> "call", kind |-> k, bytes |-> <<>>, readable |-> 0, max_bytes |-> <<>>] :
        k \in {"missing", "dir", "unreadable"}}
    \cup {[pc |-> "call", kind |-> "file", bytes |-> b, readable |-> n, max_bytes |-> m] :
        b \in ByteStrings(MaxFileLen), n \in 0..MaxFileLen, m \in {<<>>} \cup {<<c>> : c \in 0..MaxCap}}

ReadIdle == [pc |-> "idle"]

\* lines 411-419: the path must exist and not be a directory
ReadCheckPath ==
    /\ rd.pc = "call"
    /\ \/ /\ rd.kind = "missing"
          /\ rd' = [pc |-> "ret", ok |-> FALSE, err |-> "File does not exist"]
       \/ /\ rd.kind = "dir"
          /\ rd' = [pc |-> "ret", ok |-> FALSE, err |-> "Cannot read directory as text file"]
       \/ /\ rd.kind \in {"file", "unreadable"}
          /\ rd' = [rd EXCEPT !.pc = "metadata"]
    /\ UNCHANGED watchVars

\* lines 421-434: file_size, max_bytes with its default, and File::open
ReadOpen ==
    /\ rd.pc = "metadata"
    /\ \/ /\ rd.kind = "unreadable"
          /\ rd' = [pc |-> "ret", ok |-> FALSE, err |-> "Failed to open file"]
       \/ /\ rd.kind = "file"
          /\ rd' = [pc |-> "read", bytes |-> rd.bytes, readable |-> rd.readable,
                    file_size |-> Len(rd.bytes),
                    max_bytes |-> IF rd.max_bytes = <<>> THEN DefaultMaxBytes ELSE rd.max_bytes[1]]
    /\ UNCHANGED watchVars

\* lines 436-450: read_exact of min(file_size, max_bytes) bytes; when the file
\* ends before that, read_exact has consumed it, and the fallback reads what
\* is left after it
ReadBuffer ==
    /\ rd.pc = "read"
    /\ LET bytes_to_read == Min(rd.file_size, rd.max_bytes)
           buffer == IF rd.readable >= bytes_to_read
                     THEN SubSeq(rd.bytes, 1, bytes_to_read)
                     ELSE <<>>
       IN rd' = [pc |-> "decode", buffer |-> buffer, file_size |-> rd.file_size,
                 max_bytes |-> rd.max_bytes, bytes |-> rd.bytes, readable |-> rd.readable]
    /\ UNCHANGED watchVars

\* lines 452-462: decode, and build the TextFileContent
ReadDecode ==
    /\ rd.pc = "decode"
    /\ rd' = [pc |-> "ret", ok |-> TRUE,
              content |-> Decode(rd.buffer),
              truncated |-> rd.file_size > rd.max_bytes,
              encoding |-> "UTF-8",
              size |-> rd.file_size,
              \* history: the call's inputs
              bytes |-> rd.bytes, readable |-> rd.readable, max_bytes |-> rd.max_bytes]
    /\ UNCHANGED watchVars

----------------------------------------------------------------------------
(* Specifications *)

Init ==
    /\ WatchInit
    /\ rd = ReadIdle

\* one step of a command running on thread t
CommandStep(t) ==
    \/ StartWatchLock(t)
    \/ StartWatchStop(t)
    \/ StartWatchNew(t)
    \/ StartWatchWatch(t)
    \/ StartWatchStore(t)
    \/ StartWatchReturn(t)
    \/ HolderPanics(t)
    \/ StopWatchLock(t)
    \/ StopWatchStore(t)
    \/ StopWatchReturn(t)

DebouncerStep(d) ==
    \/ DebouncerLoop(d)
    \/ DeliverEvents(d)
    \/ DeliverErrors(d)
    \/ DebouncerIdle(d)
    \/ CallbackOk(d)
    \/ CallbackErr(d)

Next ==
    \/ \E t \in Threads, p \in Dirs : InvokeStart(t, p)
    \/ \E t \in Threads : InvokeStop(t)
    \/ \E t \in Threads : CommandStep(t)
    \/ \E d \in DebIds : DebouncerStep(d)

Spec == Init /\ [][Next]_vars

\* the async runtime keeps running a command whose next step is possible
\* (a command waiting in lock() can step once the guard is dropped)
Fairness == \A t \in Threads : WF_vars(CommandStep(t))

FairSpec == Spec /\ Fairness

ReadInit ==
    /\ WatchInit
    /\ rd \in ReadInputs
    /\ rd.readable <= Len(rd.bytes)

ReadNext ==
    \/ ReadCheckPath
    \/ ReadOpen
    \/ ReadBuffer
    \/ ReadDecode

ReadSpec == ReadInit /\ [][ReadNext]_vars

----------------------------------------------------------------------------
(* Properties *)

\* where a command is between acquiring the guard and dropping it
Critical == {"start51", "start55", "start81", "start84", "start86", "stop92", "stop93"}

InCritical == {t \in Threads : pc[t] \in Critical}

\* the directory the active session watches, or None
Watched == IF watcher_lock = NoDebouncer THEN None ELSE debs[watcher_lock[1]].dir

NumReturned == Len(returned)

LastReturned == returned[NumReturned]

IsOkStart(e) == e.cmd = "start_watch" /\ e.res = "Ok"

IsFailedStart(e) == e.cmd = "start_watch" /\ e.res \in {"ErrCreate", "ErrWatch"}

\* the manager is Idle: no session and no live OS handle
Idle == watcher_lock = NoDebouncer /\ LiveHandles = {}

\* the manager is Watching: one session, whose handle is the only live one
\* and watches a directory
Watching ==
    /\ watcher_lock # NoDebouncer
    /\ LiveHandles = {watcher_lock[1]}
    /\ debs[watcher_lock[1]].state = "watching"
    /\ debs[watcher_lock[1]].dir \in Dirs

\* C1: in every reachable state at most one OS watch handle is live, counting
\* the one stored in the shared session and one that start_watch has built but
\* not stored yet; when start_watch is about to build the new handle, the
\* previous session's handle has been released.
C1_AtMostOneHandle ==
    /\ Cardinality(LiveHandles) <= 1
    /\ \A t \in Threads : pc[t] = "start55" => LiveHandles = {}

\* C1's case: start_watch has built and installed a new handle, not stored
\* yet, after it released the handle of the session it replaces
C1_Witness ==
    \E t \in Threads :
        /\ pc[t] = "start84"
        /\ LiveHandles = {debouncer[t][1]}
        /\ \E d \in DOMAIN debs : debs[d].state = "replaced"

\* C2: when start_watch has acquired the lock and then fails (the watcher
\* cannot be built, or the OS refuses the path), it returns an error and the
\* manager is Idle: the previous session is torn down and not restored, and
\* the handle built for the failed attempt is not kept.
C2_FailedStartLeavesIdle ==
    (holder = None /\ NumReturned > 0 /\ IsFailedStart(LastReturned)) => Idle

\* C2's case: a start_watch that replaced an active session failed at watch()
C2_Witness ==
    /\ holder = None
    /\ NumReturned = 2
    /\ IsOkStart(returned[1])
    /\ LastReturned.cmd = "start_watch" /\ LastReturned.res = "ErrWatch"
    /\ \E d \in DOMAIN debs : debs[d].state = "failed"

\* C3: whenever no command is in progress, the active session, if there is
\* one, watches the path of the most recent successful start_watch, and there
\* is one exactly when that start_watch is the last command that returned (no
\* stop_watch and no failed start_watch after it); two successful start_watch
\* calls on p1 then p2 leave one session, bound to p2.
C3_SessionIsLastStart ==
    holder = None =>
        IF NumReturned > 0 /\ IsOkStart(LastReturned)
        THEN Watching /\ Watched = LastReturned.path
        ELSE Idle

\* C3's case: start_watch("/p1") then start_watch("/p2"), both successful
C3_Witness ==
    /\ holder = None
    /\ NumReturned = 2
    /\ IsOkStart(returned[1]) /\ returned[1].path = "/p1"
    /\ IsOkStart(returned[2]) /\ returned[2].path = "/p2"
    /\ Watched = "/p2"

\* the Mutex was poisoned before the i-th returned command tried to lock it
PoisonedBefore(i) == \E j \in 1..(i - 1) : returned[j].res = "Panic"

\* C4: stop_watch returns Ok and leaves the manager Idle whenever it acquires
\* the shared state, with or without an active session; its only error is the
\* failure to acquire it; consecutive stop_watch calls all return Ok and leave
\* the state one call leaves.
C4_StopWatch ==
    /\ \A i \in 1..NumReturned :
           returned[i].cmd = "stop_watch" =>
               /\ returned[i].res \in {"Ok", "ErrLock"}
               /\ returned[i].res = "ErrLock" <=> PoisonedBefore(i)
    /\ (holder = None /\ NumReturned > 0 /\ LastReturned.cmd = "stop_watch"
            /\ LastReturned.res = "Ok") => Idle
    /\ \A t \in Threads : pc[t] = "stop93" => Idle

\* C4's case: two consecutive stop_watch calls, the second with nothing to stop
C4_Witness ==
    /\ holder = None
    /\ NumReturned = 2
    /\ \A i \in 1..2 : returned[i].cmd = "stop_watch" /\ returned[i].res = "Ok"
    /\ Idle

\* the records the original coalescing claim expects of a batch: one per
\* distinct kind, in order of first arrival, with the paths of that kind
KindsInOrder(events) ==
    LET keep == {i \in 1..Len(events) : \A j \in 1..(i - 1) : events[j].kind # events[i].kind}
    IN [n \in 1..Cardinality(keep) |->
           events[CHOOSE i \in keep : Cardinality({j \in keep : j <= i}) = n].kind]

\* the rendering of an event kind on the "fs-change" channel
KindName(k) ==
    CASE k = CreateFile -> "Create(File)"
      [] k = RenameBoth -> "Modify(Name(Both))"

\* the rendering of a path of the watched directory
PathName(p) ==
    CASE p.name = "a.txt" -> p.dir \o "/a.txt"
      [] p.name = "b<FF>" -> p.dir \o "/b<U+FFFD>"

\* the callback has returned from an invocation with Ok(events)
DeliveredOk(d) == d.events # <<>> /\ d.tpc # "ok"

C6_AtMostOneStraggler ==
    \A d \in DOMAIN debs : debs[d].state = "stopped" => debs[d].late <= 1

\* C7: when the callback is invoked with errors, it reports each error, in
\* order, and emits no FilesystemChange; the session is left as it was (the
\* manager stays Watching the same path, no Debouncer is built or dropped),
\* and the debouncer thread goes on to its next window.
C7_ErrorStep(d) ==
    (d \in DOMAIN debs /\ debs[d].tpc = "err" /\ debs'[d].reported # debs[d].reported) =>
        /\ watcher_lock' = watcher_lock
        /\ holder' = holder
        /\ Len(debs') = Len(debs)
        /\ \A e \in DOMAIN debs :
               /\ debs'[e].out = debs[e].out
               /\ debs'[e].dir = debs[e].dir
               /\ e # d => debs'[e] = debs[e]
        /\ debs'[d].reported = SubSeq(debs[d].errs, 1, Len(debs[d].reported) + 1)
        /\ debs'[d].state = debs[d].state
        /\ debs'[d].tpc = IF debs'[d].reported = debs[d].errs THEN "loop" ELSE "err"

C7_ErrorsLeaveSession == [][\A d \in DebIds : C7_ErrorStep(d)]_vars

\* C7's case: the callback has reported both errors of a delivery and the
\* session is still the active one
C7_Witness ==
    \E d \in DOMAIN debs :
        /\ debs[d].tpc = "loop"
        /\ Len(debs[d].errs) = 2
        /\ debs[d].reported = debs[d].errs
        /\ debs[d].out = <<>>
        /\ watcher_lock = Some(d)
        /\ Watching

\* a command has been invoked on t and has not returned
InCommand(t) == pc[t] \notin {"idle", "done"}

\* C8: the watch-state lock is held only by a command between its lock() and
\* its return, never by the callback; and with concurrent callers and callbacks
\* running, every invoked command returns.
C8_CommandsReturn ==
    /\ [](holder \in Threads \cup {None})
    /\ [](\A t \in Threads : holder = t <=> t \in InCritical)
    /\ \A t \in Threads : InCommand(t) ~> pc[t] = "done"

\* C8's case: a command waits in lock() while another holds the guard and the
\* callback of its new session is emitting
C8_Witness ==
    \E t, u \in Threads :
        /\ holder = t
        /\ pc[u] \in {"start48", "stop91"}
        /\ \E d \in DOMAIN debs : debs[d].tpc = "ok" /\ debs[d].out # <<>>

\* what a serial execution of the returned commands, in the order of their
\* return, leaves watched
RECURSIVE SerialState(_)
SerialState(h) ==
    IF h = <<>> THEN None
    ELSE LET e == h[Len(h)]
         IN IF e.res = "ErrLock" THEN SerialState(SubSeq(h, 1, Len(h) - 1))
            ELSE IF IsOkStart(e) THEN e.path
            ELSE None

\* C9: commands are atomic with respect to the shared session: at most one is
\* between its lock() and its return, so a command that acquires the state
\* finds it Idle or Watching, never torn down with the replacement undecided,
\* and the state it finds is the one a serial execution of the commands that
\* returned before it leaves.
C9_Atomic ==
    /\ Cardinality(InCritical) <= 1
    /\ holder = None =>
           /\ InCritical = {}
           /\ Idle \/ Watching
           /\ \A t \in Threads : debouncer[t] = NoDebouncer
           /\ Watched = SerialState(returned)

\* C9's case: a command waits in lock() while a start_watch has built its
\* Debouncer and not stored it yet
C9_Witness ==
    \E t, u \in Threads :
        /\ pc[t] = "start84"
        /\ pc[u] \in {"start48", "stop91"}
        /\ watcher_lock = NoDebouncer

\* C10 as stated: on a regular file of size s with byte cap c, truncated is
\* s > c, the content has length exactly c when s > c (counted in bytes of the
\* String or in chars) and is the full content otherwise, and the reported
\* size is s
C10_ReadTextFile ==
    (rd.pc = "ret" /\ rd.ok /\ rd.readable = Len(rd.bytes)) =>
        LET s == Len(rd.bytes)
            c == rd.max_bytes
        IN /\ rd.size = s
           /\ rd.truncated <=> s > c
           /\ s > c => (StrLen(rd.content) = c \/ Len(rd.content) = c)
           /\ s <= c => rd.content = Decode(rd.bytes)

====
